---- MODULE Spec2Model ----
(***************************************************************************)
(* Model of VOID_autoswitch.py: the report classifier, the link state      *)
(* machine (on_data, apply_state, watcher) and the action dispatcher       *)
(* (set_default_playback).                                                 *)
(*                                                                         *)
(* Time is counted in quarters of a second, so DEBOUNCE_APPLY = 0.5 s is   *)
(* two units.  The clock is time.time(), taken to be non-decreasing; it    *)
(* starts at StartTime, which stands for the epoch time at process start   *)
(* (far more than DEBOUNCE_APPLY).  The watcher's sleep of CHECK_INTERVAL  *)
(* is left out: a turn of its loop may come at any time.                   *)
(*                                                                         *)
(* Threads: one report handler per opened device (pywinusb calls on_data   *)
(* on the device's reader thread) and the watcher thread.  Each thread     *)
(* has a position pc:                                                      *)
(*   idle  - handler waiting for a report / watcher sleeping               *)
(*   lock  - handler has read the time and classified, waits for the lock  *)
(*   run1  - inside the first subprocess.run (holds the lock)              *)
(*   run2  - inside the second subprocess.run (holds the lock)             *)
(*   dead  - the watcher's loop was left by an exception                   *)
(* The body of a with-block up to its first blocking call is one step: it  *)
(* runs under the lock, and every access to the globals is under the lock. *)
(***************************************************************************)
EXTENDS Integers, Sequences, FiniteSets, TLC

\* ---- bounds of the model ----
MaxReports == 2      \* reports delivered by the device feed in one run
Horizon == 2         \* clock units explored after StartTime
StartTime == 10      \* time.time() at process start, in clock units
MaxLen == 6          \* longest report drawn when classify is exercised alone
MaxDevices == 4      \* most devices the HID filter finds at startup

\* ---- CONFIG (src lines 11-15) ----
HEADSET_DEVICE_NAME == "HEADSET"
SPEAKERS_DEVICE_NAME == "SPEAKERS"
DEBOUNCE_APPLY == 2       \* 0.5 s

MaxTime == StartTime + Horizon

Handlers == {"h1", "h2"}
Watcher == "w"
Threads == Handlers \cup {Watcher}
NoThread == "none"

States == {"UNKNOWN", "ONLINE", "OFFLINE"}
Tags == {"HB_ONLINE", "HB_OFFLINE", "HB_UNKNOWN",
         "POWER_ON", "POWER_OFF", "POWER_OTHER", "OTHER"}
NoTag == "NONE"
NoStatus == -1       \* the process has not exited

VARIABLES
  state, desired,                  \* globals of lines 26-27
  last_rx, last_online_hb,         \* globals of lines 21-24
  last_offline_hb, last_apply,
  lock,                            \* holder of threading.Lock(), or NoThread
  pc,                              \* position of each thread
  hdata, hevt, hnow,               \* on_data's data, evt and now per handler
  call,                            \* set_default_playback's name and now per thread
  clock,                           \* time.time()
  binary,                          \* os.path.isfile(SOUNDVOLUMEVIEW)
  reports,                         \* reports delivered so far
  dispatches,                      \* calls that reached subprocess.run
  last_dispatch,                   \* clock of the latest such call (0: none)
  target,                          \* device of the latest successful external action
  result,                          \* outcome of the latest external action
  last,                            \* the latest critical section: its event and what
                                   \* set_default_playback did in it
  devs,                            \* open_devices: for each device found, whether
                                   \* d.open() succeeds
  di,                              \* open_devices: index of the next d in devs
  devices,                         \* global of line 19: the devices opened
  mainpc,                          \* position of main
  exit_status,                     \* status of sys.exit, or NoStatus
  started                          \* the watcher thread has been started

vars == <<state, desired, last_rx, last_online_hb, last_offline_hb, last_apply,
          lock, pc, hdata, hevt, hnow, call, clock, binary, reports,
          dispatches, last_dispatch, target, result, last,
          devs, di, devices, mainpc, exit_status, started>>

globals == <<state, desired, last_rx, last_online_hb, last_offline_hb, last_apply>>
inputs == <<hdata, hevt, hnow>>
ghosts == <<dispatches, last_dispatch, target, result, last>>
startup == <<devs, di, devices, mainpc, exit_status, started>>

\* ---- reports ----
\* data[i] of the source, 0-indexed
Byte(data, i) == data[i + 1]

\* The four reports of the "Data format" notes (src lines 162-171), cut to
\* their first seven bytes (the remaining bytes are zero and never read).
OfflineHeartbeat == <<1, 0, 18, 0, 0, 0, 0>>
OnlineHeartbeat == <<1, 1, 6, 0, 0, 0, 0>>
HeadsetPowerOff == <<3, 0, 1, 54, 0, 0, 0>>
HeadsetPowerOn == <<3, 0, 1, 54, 0, 2, 0>>

\* Reports the device feed delivers to the running state machine: the four
\* documented ones, an empty one, short ones and unrecognised payloads.
DeviceReports ==
  { OfflineHeartbeat, OnlineHeartbeat, HeadsetPowerOff, HeadsetPowerOn,
    << >>, <<1, 1>>, <<3, 0, 1, 54, 0, 1>> }

\* Byte values that classify distinguishes, and two it does not (7, 255).
Bytes == {0, 1, 2, 3, 6, 7, 18, 54, 255}

\* Reports used to exercise classify alone: every report of at most three
\* bytes, and every report of at most MaxLen bytes that differs from a
\* prefix of a documented report in at most one byte.
RECURSIVE Prefixes(_)
Prefixes(s) == IF s = << >> THEN { << >> }
               ELSE {s} \cup Prefixes(SubSeq(s, 1, Len(s) - 1))

Documented == {OfflineHeartbeat, OnlineHeartbeat, HeadsetPowerOff, HeadsetPowerOn}

ShortReports == UNION { [1..n -> Bytes] : n \in 0..3 }

NearReports ==
  UNION { UNION { { [p EXCEPT ![i] = b] : i \in 1..Len(p), b \in Bytes }
                  : p \in { q \in Prefixes(r \o <<0, 0, 0>>) : Len(q) <= MaxLen } }
          : r \in Documented }

Reports == ShortReports \cup NearReports

\* classify with the power-event guard on data[4] left out
classify_GuardByteDropped(data) ==
  IF Len(data) = 0 THEN "OTHER"
  ELSE LET rid == Byte(data, 0) IN
    IF rid = 1 THEN
      IF Len(data) >= 3 /\ Byte(data, 1) = 1 /\ Byte(data, 2) = 6 THEN "HB_ONLINE"
      ELSE IF Len(data) >= 3 /\ Byte(data, 1) = 0 /\ Byte(data, 2) = 18 THEN "HB_OFFLINE"
      ELSE "HB_UNKNOWN"
    ELSE IF rid = 3 THEN
      IF /\ Len(data) >= 6
         /\ Byte(data, 1) = 0 /\ Byte(data, 2) = 1 /\ Byte(data, 3) = 54
         /\ Byte(data, 5) = 2 THEN "POWER_ON"
      ELSE IF /\ Len(data) >= 6
              /\ Byte(data, 1) = 0 /\ Byte(data, 2) = 1 /\ Byte(data, 3) = 54
              /\ Byte(data, 5) = 0 THEN "POWER_OFF"
      ELSE "POWER_OTHER"
    ELSE "OTHER"

\* ---- classify (src lines 59-77) ----
classify(data) ==
  IF Len(data) = 0 THEN "OTHER"
  ELSE LET rid == Byte(data, 0) IN
    IF rid = 1 THEN
      IF Len(data) >= 3 /\ Byte(data, 1) = 1 /\ Byte(data, 2) = 6 THEN "HB_ONLINE"
      ELSE IF Len(data) >= 3 /\ Byte(data, 1) = 0 /\ Byte(data, 2) = 18 THEN "HB_OFFLINE"
      ELSE "HB_UNKNOWN"
    ELSE IF rid = 3 THEN
      IF /\ Len(data) >= 6
         /\ Byte(data, 1) = 0 /\ Byte(data, 2) = 1
         /\ Byte(data, 3) = 54 /\ Byte(data, 4) = 0
         /\ Byte(data, 5) = 2 THEN "POWER_ON"
      ELSE IF /\ Len(data) >= 6
              /\ Byte(data, 1) = 0 /\ Byte(data, 2) = 1
              /\ Byte(data, 3) = 54 /\ Byte(data, 4) = 0
              /\ Byte(data, 5) = 0 THEN "POWER_OFF"
      ELSE "POWER_OTHER"
    ELSE "OTHER"

\* ---- initial state (src lines 18-27) ----
NoCall == [name |-> "NONE", now |-> 0]
NoLast == [evt |-> NoTag, did |-> "NONE"]

\* main has passed line 142: one device was found and opened, the watcher
\* runs, and main sleeps in its loop
Listening ==
  /\ devs = <<TRUE>> /\ di = Len(devs) + 1
  /\ devices = <<1>>
  /\ mainpc = "listening"
  /\ exit_status = NoStatus
  /\ started = TRUE

Init ==
  /\ state = "UNKNOWN" /\ desired = "UNKNOWN"
  /\ last_rx = 0 /\ last_online_hb = 0 /\ last_offline_hb = 0 /\ last_apply = 0
  /\ lock = NoThread
  /\ pc = [t \in Threads |-> "idle"]
  /\ hdata = [h \in Handlers |-> << >>]
  /\ hevt = [h \in Handlers |-> NoTag]
  /\ hnow = [h \in Handlers |-> 0]
  /\ call = [t \in Threads |-> NoCall]
  /\ clock = StartTime
  /\ binary \in BOOLEAN
  /\ reports = 0
  /\ dispatches = 0 /\ last_dispatch = 0
  /\ target = "NONE" /\ result = "NONE"
  /\ last = NoLast
  /\ Listening

\* the event of the critical section of thread t
EventOf(t) == IF t \in Handlers THEN hevt[t] ELSE "TICK"

\* ---- leaving the with-block (src lines 83, 114): the lock is released ----
\* and the thread's frames (data, evt, now; name, now) are gone
Release(t) ==
  /\ lock' = NoThread
  /\ pc' = [pc EXCEPT ![t] = "idle"]
  /\ call' = [call EXCEPT ![t] = NoCall]
  /\ IF t \in Handlers
       THEN /\ hdata' = [hdata EXCEPT ![t] = << >>]
            /\ hevt' = [hevt EXCEPT ![t] = NoTag]
            /\ hnow' = [hnow EXCEPT ![t] = 0]
       ELSE UNCHANGED inputs

\* set_default_playback without the debounce test of lines 34-36
set_default_playback_NoDebounce(t, name) ==
  IF ~binary THEN
    /\ last' = [evt |-> EventOf(t), did |-> "NOBINARY"]
    /\ UNCHANGED <<dispatches, last_dispatch>>
    /\ Release(t)
  ELSE
    /\ last' = [evt |-> EventOf(t), did |-> "INVOKED"]
    /\ dispatches' = dispatches + 1
    /\ last_dispatch' = clock
    /\ call' = [call EXCEPT ![t] = [name |-> name, now |-> clock]]
    /\ pc' = [pc EXCEPT ![t] = "run1"]
    /\ lock' = t
    /\ UNCHANGED inputs

\* set_default_playback with the debounce test made before the binary test
set_default_playback_DebounceFirst(t, name) ==
  IF (clock - last_apply) < DEBOUNCE_APPLY THEN
    /\ last' = [evt |-> EventOf(t), did |-> "DEBOUNCED"]
    /\ UNCHANGED <<dispatches, last_dispatch>>
    /\ Release(t)
  ELSE IF ~binary THEN
    /\ last' = [evt |-> EventOf(t), did |-> "NOBINARY"]
    /\ UNCHANGED <<dispatches, last_dispatch>>
    /\ Release(t)
  ELSE
    /\ last' = [evt |-> EventOf(t), did |-> "INVOKED"]
    /\ dispatches' = dispatches + 1
    /\ last_dispatch' = clock
    /\ call' = [call EXCEPT ![t] = [name |-> name, now |-> clock]]
    /\ pc' = [pc EXCEPT ![t] = "run1"]
    /\ lock' = t
    /\ UNCHANGED inputs

\* ---- set_default_playback (src lines 29-36): the two early returns, or ----
\* ---- the start of the first subprocess.run (line 38)                   ----
set_default_playback(t, name) ==
  IF ~binary THEN
    /\ last' = [evt |-> EventOf(t), did |-> "NOBINARY"]
    /\ UNCHANGED <<dispatches, last_dispatch>>
    /\ Release(t)
  ELSE IF (clock - last_apply) < DEBOUNCE_APPLY THEN
    /\ last' = [evt |-> EventOf(t), did |-> "DEBOUNCED"]
    /\ UNCHANGED <<dispatches, last_dispatch>>
    /\ Release(t)
  ELSE
    /\ last' = [evt |-> EventOf(t), did |-> "INVOKED"]
    /\ dispatches' = dispatches + 1
    /\ last_dispatch' = clock
    /\ call' = [call EXCEPT ![t] = [name |-> name, now |-> clock]]
    /\ pc' = [pc EXCEPT ![t] = "run1"]
    /\ lock' = t
    /\ UNCHANGED inputs

\* a path of the critical section that does not reach set_default_playback
NoDispatch(t) ==
  /\ last' = [evt |-> EventOf(t), did |-> "NONE"]
  /\ UNCHANGED <<dispatches, last_dispatch>>
  /\ Release(t)

\* apply_state without the early return of lines 49-50
apply_state_NoChangeCheck(t, new_state) ==
  /\ state' = new_state
  /\ IF new_state = "ONLINE" THEN set_default_playback(t, HEADSET_DEVICE_NAME)
     ELSE IF new_state = "OFFLINE" THEN set_default_playback(t, SPEAKERS_DEVICE_NAME)
     ELSE NoDispatch(t)

\* ---- apply_state (src lines 47-57) ----
apply_state(t, new_state) ==
  IF new_state = state THEN
    /\ UNCHANGED state
    /\ NoDispatch(t)
  ELSE
    /\ state' = new_state
    /\ IF new_state = "ONLINE" THEN set_default_playback(t, HEADSET_DEVICE_NAME)
       ELSE IF new_state = "OFFLINE" THEN set_default_playback(t, SPEAKERS_DEVICE_NAME)
       ELSE NoDispatch(t)

\* a path of the critical section that does not reach apply_state
NoApply(t) ==
  /\ UNCHANGED state
  /\ NoDispatch(t)

\* ---- on_data, lines 81-82: read the time and classify, before the lock ----
Classify(h, d) ==
  /\ pc[h] = "idle"
  /\ hdata' = [hdata EXCEPT ![h] = d]
  /\ hnow' = [hnow EXCEPT ![h] = clock]
  /\ hevt' = [hevt EXCEPT ![h] = classify(d)]
  /\ pc' = [pc EXCEPT ![h] = "lock"]
  /\ UNCHANGED <<globals, lock, call, clock, binary, startup, ghosts>>

\* the device feed delivers a report to a handler
Receive ==
  \E h \in Handlers, d \in DeviceReports :
    /\ reports < MaxReports
    /\ reports' = reports + 1
    /\ Classify(h, d)

\* ---- on_data, lines 86-89: the POWER_ON branch ----
\* the branch with line 87 left out
on_power_on_DesiredForgotten(h) ==
  /\ UNCHANGED <<desired, last_online_hb, last_offline_hb>>
  /\ apply_state(h, "ONLINE")

on_power_on(h) ==
  /\ desired' = "ONLINE"
  /\ UNCHANGED <<last_online_hb, last_offline_hb>>
  /\ apply_state(h, "ONLINE")

\* ---- on_data, lines 90-93: the POWER_OFF branch ----
\* the branch without the forced transition of lines 92-93
on_power_off_NoForce(h) ==
  /\ desired' = "OFFLINE"
  /\ UNCHANGED <<last_online_hb, last_offline_hb>>
  /\ NoApply(h)

on_power_off(h) ==
  /\ desired' = "OFFLINE"
  /\ UNCHANGED <<last_online_hb, last_offline_hb>>
  /\ apply_state(h, "OFFLINE")

\* ---- on_data, lines 95-101: the HB_ONLINE branch ----
on_hb_online(h) ==
  /\ last_online_hb' = hnow[h]
  /\ desired' = "ONLINE"
  /\ UNCHANGED last_offline_hb
  /\ IF state # "ONLINE" THEN apply_state(h, "ONLINE") ELSE NoApply(h)

\* ---- on_data, lines 103-109: the HB_OFFLINE branch ----
\* the branch stamping the online heartbeat as well
on_hb_offline_StampsBoth(h) ==
  /\ last_offline_hb' = hnow[h]
  /\ last_online_hb' = hnow[h]
  /\ desired' = "OFFLINE"
  /\ IF state # "OFFLINE" THEN apply_state(h, "OFFLINE") ELSE NoApply(h)

\* the branch with the heartbeat advisory: DesiredState only
on_hb_offline_Advisory(h) ==
  /\ last_offline_hb' = hnow[h]
  /\ desired' = "OFFLINE"
  /\ UNCHANGED last_online_hb
  /\ NoApply(h)

on_hb_offline(h) ==
  /\ last_offline_hb' = hnow[h]
  /\ desired' = "OFFLINE"
  /\ UNCHANGED last_online_hb
  /\ IF state # "OFFLINE" THEN apply_state(h, "OFFLINE") ELSE NoApply(h)

\* ---- on_data, after line 109: no branch taken, the function ends ----
\* any heartbeat-kind report counted as an online heartbeat
on_unknown_HeartbeatCounts(h) ==
  /\ IF hevt[h] = "HB_UNKNOWN"
       THEN last_online_hb' = hnow[h]
       ELSE UNCHANGED last_online_hb
  /\ UNCHANGED <<desired, last_offline_hb>>
  /\ NoApply(h)

\* an unrecognised report taken as "link state not known any more"
on_unknown_ResetsDesired(h) ==
  /\ desired' = "UNKNOWN"
  /\ UNCHANGED <<last_online_hb, last_offline_hb>>
  /\ NoApply(h)

on_unknown(h) ==
  /\ UNCHANGED <<desired, last_online_hb, last_offline_hb>>
  /\ NoApply(h)

\* on_data without the "with lock" of line 83
on_data_NoLock(h) ==
  /\ pc[h] = "lock"
  /\ last_rx' = hnow[h]
  /\ IF hevt[h] = "POWER_ON" THEN on_power_on(h)
     ELSE IF hevt[h] = "POWER_OFF" THEN on_power_off(h)
     ELSE IF hevt[h] = "HB_ONLINE" THEN on_hb_online(h)
     ELSE IF hevt[h] = "HB_OFFLINE" THEN on_hb_offline(h)
     ELSE on_unknown(h)
  /\ UNCHANGED <<last_apply, clock, binary, startup, reports, target, result>>

\* ---- on_data, lines 83-109: the with-block ----
on_data(h) ==
  /\ pc[h] = "lock"
  /\ lock = NoThread
  /\ last_rx' = hnow[h]
  /\ IF hevt[h] = "POWER_ON" THEN on_power_on(h)
     ELSE IF hevt[h] = "POWER_OFF" THEN on_power_off(h)
     ELSE IF hevt[h] = "HB_ONLINE" THEN on_hb_online(h)
     ELSE IF hevt[h] = "HB_OFFLINE" THEN on_hb_offline(h)
     ELSE on_unknown(h)
  /\ UNCHANGED <<last_apply, clock, binary, startup, reports, target, result>>

Handle == \E h \in Handlers : on_data(h)

\* the watcher with the tests of line 116 and of "desired ==" in line 119 left out
watcher_GuardsDropped ==
  /\ pc[Watcher] = "idle"
  /\ lock = NoThread
  /\ IF desired = "ONLINE" /\ last_online_hb > 0 THEN apply_state(Watcher, "ONLINE")
     ELSE IF last_offline_hb > 0 THEN apply_state(Watcher, "OFFLINE")
     ELSE NoApply(Watcher)
  /\ UNCHANGED <<desired, last_rx, last_online_hb, last_offline_hb, last_apply,
                 clock, binary, startup, reports, target, result>>

\* ---- watcher, lines 112-120: one turn of the loop, after the sleep ----
watcher ==
  /\ pc[Watcher] = "idle"
  /\ lock = NoThread
  /\ IF desired # state THEN
       IF desired = "ONLINE" /\ last_online_hb > 0 THEN apply_state(Watcher, "ONLINE")
       ELSE IF desired = "OFFLINE" /\ last_offline_hb > 0 THEN apply_state(Watcher, "OFFLINE")
       ELSE NoApply(Watcher)
     ELSE NoApply(Watcher)
  /\ UNCHANGED <<desired, last_rx, last_online_hb, last_offline_hb, last_apply,
                 clock, binary, startup, reports, target, result>>

\* ---- set_default_playback, lines 38-45: the two subprocess.run calls ----
\* last_apply assigned as soon as the first call has returned
Run1Ok_StampsApply(t) ==
  /\ pc[t] = "run1"
  /\ binary
  /\ pc' = [pc EXCEPT ![t] = "run2"]
  /\ last_apply' = call[t].now
  /\ UNCHANGED <<state, desired, last_rx, last_online_hb, last_offline_hb>>
  /\ UNCHANGED <<lock, inputs, call, clock, binary, startup, reports, ghosts>>

\* first call returns with exit status 0: the second call starts (its
\* executable is still there)
Run1Ok(t) ==
  /\ pc[t] = "run1"
  /\ binary
  /\ pc' = [pc EXCEPT ![t] = "run2"]
  /\ UNCHANGED <<globals, lock, inputs, call, clock, binary, startup, reports, ghosts>>

\* second call returns with exit status 0: lines 42-43
Run2Ok(t) ==
  /\ pc[t] = "run2"
  /\ last_apply' = call[t].now
  /\ target' = call[t].name
  /\ result' = "OK"
  /\ Release(t)
  /\ UNCHANGED <<state, desired, last_rx, last_online_hb, last_offline_hb,
                 clock, binary, startup, reports, dispatches, last_dispatch, last>>

\* the failure path with last_apply stamped before the calls
RunFail_StampsApply(t) ==
  /\ pc[t] \in {"run1", "run2"}
  /\ result' = "FAILED"
  /\ last_apply' = call[t].now
  /\ Release(t)
  /\ UNCHANGED <<state, desired, last_rx, last_online_hb, last_offline_hb,
                 clock, binary, startup, reports, dispatches, last_dispatch, target, last>>

\* either call raises CalledProcessError: lines 44-45
RunFail(t) ==
  /\ pc[t] \in {"run1", "run2"}
  /\ result' = "FAILED"
  /\ Release(t)
  /\ UNCHANGED <<globals, clock, binary, startup, reports,
                 dispatches, last_dispatch, target, last>>

\* a command cannot be launched: subprocess.run of line 38 or of line 40
\* raises an OSError (FileNotFoundError when the file was removed after the
\* test of line 31, PermissionError or "Exec format error" when the file is
\* there but is no program that may be run), which line 44 does not catch.
\* The exception leaves set_default_playback, apply_state and the
\* with-block, which releases the lock; it ends on_data, and it ends the
\* watcher's loop.
RunRaises(t) ==
  /\ pc[t] = "run1"
  /\ result' = "RAISED"
  /\ lock' = NoThread
  /\ call' = [call EXCEPT ![t] = NoCall]
  /\ IF t \in Handlers
       THEN /\ pc' = [pc EXCEPT ![t] = "idle"]
            /\ hdata' = [hdata EXCEPT ![t] = << >>]
            /\ hevt' = [hevt EXCEPT ![t] = NoTag]
            /\ hnow' = [hnow EXCEPT ![t] = 0]
       ELSE /\ pc' = [pc EXCEPT ![t] = "dead"]
            /\ UNCHANGED inputs
  /\ UNCHANGED <<globals, clock, binary, startup, reports,
                 dispatches, last_dispatch, target, last>>

CommandOk == \E t \in Threads : Run1Ok(t) \/ Run2Ok(t)
CommandRaises == \E t \in Threads : RunRaises(t)
CommandFails == \E t \in Threads : RunFail(t)

\* ---- the clock advances ----
Tick ==
  /\ clock < MaxTime
  /\ clock' = clock + 1
  /\ UNCHANGED <<globals, lock, pc, inputs, call, binary, startup, reports, ghosts>>

Next ==
  \/ Receive
  \/ Handle
  \/ watcher
  \/ CommandOk
  \/ CommandFails
  \/ CommandRaises
  \/ Tick

Spec == Init /\ [][Next]_vars

\* ---- the binary goes missing while the program runs ----
\* SoundVolumeView.exe is removed, at any moment: between dispatches, or
\* while a command runs
RemoveBinary ==
  /\ binary
  /\ binary' = FALSE
  /\ UNCHANGED <<globals, lock, pc, inputs, call, clock, startup, reports, ghosts>>

InitPresent == Init /\ binary = TRUE

\* the program with a command that exits 0 whenever it runs, and a binary
\* that may go missing
NextMissing ==
  \/ Receive
  \/ Handle
  \/ watcher
  \/ CommandOk
  \/ CommandRaises
  \/ Tick
  \/ RemoveBinary

SpecMissing == InitPresent /\ [][NextMissing]_vars

\* ---- classify exercised alone on the reports of Reports ----
\* ---- startup: main and open_devices (lines 122-152) ----
\* one turn of the for loop of open_devices: d.open() succeeds and d is
\* appended to devices, or raises and d is skipped
open_devices ==
  /\ mainpc = "open"
  /\ di <= Len(devs)
  /\ devices' = IF devs[di] THEN Append(devices, di) ELSE devices
  /\ di' = di + 1
  /\ UNCHANGED <<devs, mainpc, exit_status, started>>
  /\ UNCHANGED <<globals, lock, pc, inputs, call, clock, binary, reports, ghosts>>

\* main that tests the devices found instead of the devices opened
main_TestsFound ==
  /\ mainpc = "open"
  /\ di > Len(devs)
  /\ IF devs = << >>
       THEN /\ mainpc' = "exited"
            /\ exit_status' = 1
            /\ UNCHANGED started
       ELSE /\ mainpc' = "listening"
            /\ started' = TRUE
            /\ UNCHANGED exit_status
  /\ UNCHANGED <<devs, di, devices>>
  /\ UNCHANGED <<globals, lock, pc, inputs, call, clock, binary, reports, ghosts>>

\* main after open_devices has returned: lines 136-142
main ==
  /\ mainpc = "open"
  /\ di > Len(devs)
  /\ IF devices = << >>
       THEN /\ mainpc' = "exited"
            /\ exit_status' = 1
            /\ UNCHANGED started
       ELSE /\ mainpc' = "listening"
            /\ started' = TRUE
            /\ UNCHANGED exit_status
  /\ UNCHANGED <<devs, di, devices>>
  /\ UNCHANGED <<globals, lock, pc, inputs, call, clock, binary, reports, ghosts>>

\* Ctrl+C in the loop of lines 144-146: the devices are closed, main returns
\* and the process ends with status 0 (the watcher is a daemon thread)
KeyboardInterrupt ==
  /\ mainpc = "listening"
  /\ mainpc' = "closed"
  /\ exit_status' = 0
  /\ UNCHANGED <<devs, di, devices, started>>
  /\ UNCHANGED <<globals, lock, pc, inputs, call, clock, binary, reports, ghosts>>

\* the process at line 135: the HID filter has found up to MaxDevices
\* devices, each of which opens or not
InitMain ==
  /\ state = "UNKNOWN" /\ desired = "UNKNOWN"
  /\ last_rx = 0 /\ last_online_hb = 0 /\ last_offline_hb = 0 /\ last_apply = 0
  /\ lock = NoThread
  /\ pc = [t \in Threads |-> "idle"]
  /\ hdata = [h \in Handlers |-> << >>]
  /\ hevt = [h \in Handlers |-> NoTag]
  /\ hnow = [h \in Handlers |-> 0]
  /\ call = [t \in Threads |-> NoCall]
  /\ clock = StartTime
  /\ binary = TRUE
  /\ reports = 0
  /\ dispatches = 0 /\ last_dispatch = 0
  /\ target = "NONE" /\ result = "NONE"
  /\ last = NoLast
  /\ devs \in UNION {[1..n -> BOOLEAN] : n \in 0..MaxDevices}
  /\ di = 1
  /\ devices = << >>
  /\ mainpc = "open"
  /\ exit_status = NoStatus
  /\ started = FALSE

NextMain ==
  \/ open_devices
  \/ main
  \/ KeyboardInterrupt

SpecMain == InitMain /\ [][NextMain]_vars

InitClassify ==
  /\ state = "UNKNOWN" /\ desired = "UNKNOWN"
  /\ last_rx = 0 /\ last_online_hb = 0 /\ last_offline_hb = 0 /\ last_apply = 0
  /\ lock = NoThread
  /\ pc = [t \in Threads |-> "idle"]
  /\ hdata \in [Handlers -> Reports]
  /\ hdata["h2"] = << >>
  /\ hevt = [h \in Handlers |-> NoTag]
  /\ hnow = [h \in Handlers |-> 0]
  /\ call = [t \in Threads |-> NoCall]
  /\ clock = StartTime
  /\ binary = TRUE
  /\ reports = 0
  /\ dispatches = 0 /\ last_dispatch = 0
  /\ target = "NONE" /\ result = "NONE"
  /\ last = NoLast
  /\ Listening

NextClassify == Classify("h1", hdata["h1"]) /\ UNCHANGED reports

SpecClassify == InitClassify /\ [][NextClassify]_vars

\* ======================= properties =======================

\* ---- the events of the specification's data model ----
SpecEvent(tag) ==
  CASE tag = "POWER_ON" -> "PowerOn"
    [] tag = "POWER_OFF" -> "PowerOff"
    [] tag = "HB_ONLINE" -> "HeartbeatOnline"
    [] tag = "HB_OFFLINE" -> "HeartbeatOffline"
    [] tag \in {"HB_UNKNOWN", "POWER_OTHER", "OTHER"} -> "Unknown"
    [] OTHER -> "NoEvent"

\* the classifier's table of the specification (section 4.1), on r[0..]
Table(r) ==
  IF Len(r) >= 3 /\ Byte(r, 0) = 1 /\ Byte(r, 1) = 1 /\ Byte(r, 2) = 6
    THEN "HeartbeatOnline"
  ELSE IF Len(r) >= 3 /\ Byte(r, 0) = 1 /\ Byte(r, 1) = 0 /\ Byte(r, 2) = 18
    THEN "HeartbeatOffline"
  ELSE IF Len(r) >= 6 /\ Byte(r, 0) = 3 /\ SubSeq(r, 2, 5) = <<0, 1, 54, 0>>
          /\ Byte(r, 5) = 2
    THEN "PowerOn"
  ELSE IF Len(r) >= 6 /\ Byte(r, 0) = 3 /\ SubSeq(r, 2, 5) = <<0, 1, 54, 0>>
          /\ Byte(r, 5) = 0
    THEN "PowerOff"
  ELSE "Unknown"

\* the state an event asks for
Implied(evt) ==
  IF evt \in {"POWER_ON", "HB_ONLINE"} THEN "ONLINE"
  ELSE IF evt \in {"POWER_OFF", "HB_OFFLINE"} THEN "OFFLINE"
  ELSE "NONE"

DeviceOf(s) ==
  IF s = "ONLINE" THEN HEADSET_DEVICE_NAME
  ELSE IF s = "OFFLINE" THEN SPEAKERS_DEVICE_NAME
  ELSE "NONE"

\* ---- kinds of step ----
\* handler h runs the with-block of on_data
HandlerStep(h) == pc[h] = "lock" /\ pc'[h] # "lock"
Handles(h, evt) == HandlerStep(h) /\ hevt[h] = evt
\* the watcher runs one turn of its loop
WatcherStep ==
  /\ pc[Watcher] = "idle" /\ lock = NoThread
  /\ \A h \in Handlers : pc'[h] = pc[h]
  /\ clock' = clock
\* the external command is invoked (line 38 is reached) by thread t
Invokes(t) == pc[t] \notin {"run1", "run2"} /\ pc'[t] = "run1"
\* set_default_playback is called in this step
Called == /\ (WatcherStep \/ \E h \in Handlers : HandlerStep(h))
          /\ last'.did \in {"NOBINARY", "DEBOUNCED", "INVOKED"}
Elapsed == (clock - last_apply) >= DEBOUNCE_APPLY

\* C1: classify returns, for every report (empty and short ones included),
\* the event of the specification's table: HeartbeatOnline, HeartbeatOffline,
\* PowerOn, PowerOff exactly on the table's guards, and otherwise one of the
\* tags HB_UNKNOWN, POWER_OTHER, OTHER, which stand for Unknown.
C1_ClassifyMatchesTable ==
  \A h \in Handlers :
    pc[h] = "lock" =>
      /\ hevt[h] \in Tags
      /\ SpecEvent(hevt[h]) = Table(hdata[h])
      /\ (hdata[h] # << >> /\ Byte(hdata[h], 0) \notin {1, 3}) => hevt[h] = "OTHER"

C1_Witness ==
  /\ pc["h1"] = "lock"
  /\ hdata["h1"] = <<3, 0, 1, 54, 0, 2>>
  /\ hevt["h1"] = "POWER_ON"

\* C2 as stated: handling a PowerOn leaves LinkState = DesiredState = Online
\* and, whenever at least DEBOUNCE_APPLY has elapsed since the last dispatch
\* (and the binary is there), makes exactly one dispatch.
C2_Original ==
  [][\A h \in Handlers :
       Handles(h, "POWER_ON") =>
         /\ state' = "ONLINE" /\ desired' = "ONLINE"
         /\ (binary /\ (clock - last_dispatch) >= DEBOUNCE_APPLY)
              => dispatches' = dispatches + 1]_vars

\* C2 amended: handling a PowerOn leaves LinkState = DesiredState = Online;
\* it makes exactly one dispatch, of the Online action, if LinkState was not
\* Online before, the binary exists and at least DEBOUNCE_APPLY has elapsed
\* since last_apply, and none otherwise; so a second PowerOn (LinkState is
\* Online already) leaves the dispatch count unchanged.
C2_PowerOn ==
  [][\A h \in Handlers :
       Handles(h, "POWER_ON") =>
         /\ state' = "ONLINE" /\ desired' = "ONLINE"
         /\ IF state # "ONLINE" /\ binary /\ Elapsed
              THEN /\ dispatches' = dispatches + 1
                   /\ Invokes(h)
                   /\ call'[h].name = HEADSET_DEVICE_NAME
              ELSE /\ dispatches' = dispatches
                   /\ \A t \in Threads : ~Invokes(t)]_vars

\* a PowerOn dispatched the Online action after an earlier successful
\* dispatch of the Offline action
C2_Witness ==
  /\ last = [evt |-> "POWER_ON", did |-> "INVOKED"]
  /\ state = "ONLINE" /\ desired = "ONLINE"
  /\ target = SPEAKERS_DEVICE_NAME /\ last_apply > 0
  /\ dispatches = 2
  /\ \E h \in Handlers : pc[h] = "run1" /\ call[h].name = HEADSET_DEVICE_NAME

\* C3: a transition made less than DEBOUNCE_APPLY after last_apply still
\* updates LinkState, but invokes no external command and leaves last_apply
\* alone; one made at least DEBOUNCE_APPLY after it, with the binary there,
\* invokes the external command for the new state's device.
C3_DebouncedTransition ==
  [][\A h \in Handlers :
       (HandlerStep(h) /\ Implied(hevt[h]) \notin {"NONE", state}) =>
         /\ state' = Implied(hevt[h])
         /\ last_apply' = last_apply
         /\ ~Elapsed =>
              /\ dispatches' = dispatches
              /\ \A t \in Threads : ~Invokes(t)
              /\ lock' = NoThread
         /\ (Elapsed /\ binary) =>
              /\ dispatches' = dispatches + 1
              /\ Invokes(h)
              /\ call'[h] = [name |-> DeviceOf(state'), now |-> clock]]_vars

\* LinkState went Online inside the debounce window of a successful
\* Offline action: the speakers are still the latest device set
C3_Witness ==
  /\ last.did = "DEBOUNCED"
  /\ state = "ONLINE"
  /\ target = SPEAKERS_DEVICE_NAME /\ result = "OK"
  /\ (clock - last_apply) < DEBOUNCE_APPLY
  /\ dispatches = 1

\* C4: set_default_playback is called only in a step that changes
\* LinkState, at most one dispatch is made in a step, and an event whose
\* implied state is the current LinkState changes neither LinkState nor the
\* dispatch count.
C4_DispatchOnlyOnChange ==
  [][/\ Called => state' # state
     /\ dispatches' # dispatches =>
          (state' # state /\ dispatches' = dispatches + 1)
     /\ \A h \in Handlers :
          (HandlerStep(h) /\ Implied(hevt[h]) = state) =>
            /\ state' = state
            /\ dispatches' = dispatches
            /\ last'.did = "NONE"
            /\ \A t \in Threads : ~Invokes(t)]_vars

\* a repeated PowerOn was handled: no call of set_default_playback
C4_Witness ==
  /\ last = [evt |-> "POWER_ON", did |-> "NONE"]
  /\ state = "ONLINE"
  /\ dispatches = 1 /\ result = "OK"
  /\ (clock - last_apply) >= DEBOUNCE_APPLY

\* C5: handling a HeartbeatOnline (HeartbeatOffline) sets last_online_hb
\* (last_offline_hb) to the event's time, sets DesiredState to Online
\* (Offline), leaves the other heartbeat timestamp alone, and applies a
\* transition of LinkState to that state exactly when LinkState differed.
C5_Heartbeat ==
  [][\A h \in Handlers :
       /\ Handles(h, "HB_ONLINE") =>
            /\ last_online_hb' = hnow[h]
            /\ last_offline_hb' = last_offline_hb
            /\ desired' = "ONLINE"
            /\ state' = "ONLINE"
            /\ Called <=> state # "ONLINE"
       /\ Handles(h, "HB_OFFLINE") =>
            /\ last_offline_hb' = hnow[h]
            /\ last_online_hb' = last_online_hb
            /\ desired' = "OFFLINE"
            /\ state' = "OFFLINE"
            /\ Called <=> state # "OFFLINE"]_vars

\* an offline heartbeat read before the clock advanced forced LinkState
\* Offline, and the online heartbeat's timestamp is still there
C5_Witness ==
  /\ last.evt = "HB_OFFLINE" /\ last.did # "NONE"
  /\ state = "OFFLINE" /\ desired = "OFFLINE"
  /\ last_online_hb > 0
  /\ last_offline_hb > last_online_hb
  /\ last_offline_hb < clock

\* C6: an event classified HB_UNKNOWN, POWER_OTHER or OTHER (an empty, short
\* or unrecognised report) sets last_rx to the event's time and changes
\* neither LinkState, DesiredState, the heartbeat timestamps nor last_apply;
\* set_default_playback is not called and the handler returns.
C6_UnknownEvent ==
  [][\A h \in Handlers :
       (HandlerStep(h) /\ Table(hdata[h]) = "Unknown") =>
         /\ hevt[h] \in {"HB_UNKNOWN", "POWER_OTHER", "OTHER"}
         /\ last_rx' = hnow[h]
         /\ UNCHANGED <<state, desired, last_online_hb, last_offline_hb,
                        last_apply, dispatches, target, result>>
         /\ ~Called
         /\ \A t \in Threads : ~Invokes(t)
         /\ pc'[h] = "idle" /\ lock' = NoThread]_vars

\* a short heartbeat-kind report was handled after an online heartbeat
C6_Witness ==
  /\ last = [evt |-> "HB_UNKNOWN", did |-> "NONE"]
  /\ state = "ONLINE" /\ desired = "ONLINE"
  /\ last_online_hb > 0
  /\ last_rx > last_online_hb
  /\ \A t \in Threads : pc[t] = "idle"

\* C7: a turn of the watcher changes LinkState or calls
\* set_default_playback only when DesiredState differs from LinkState and a
\* heartbeat of the desired kind has been seen (its timestamp is > 0); with
\* DesiredState Online and no online heartbeat seen, it changes nothing and
\* dispatches nothing.
C7_WatcherReconcile ==
  [][WatcherStep =>
       /\ (state' # state \/ Called \/ dispatches' # dispatches) =>
            /\ desired # state
            /\ desired = "ONLINE" => last_online_hb > 0
            /\ desired = "OFFLINE" => last_offline_hb > 0
            /\ state' = desired
       /\ (desired = "ONLINE" /\ last_online_hb = 0) =>
            /\ state' = state
            /\ dispatches' = dispatches
            /\ ~Called
            /\ ~Invokes(Watcher)
       /\ UNCHANGED <<desired, last_rx, last_online_hb, last_offline_hb, last_apply>>]_vars

\* the watcher took a turn with DesiredState Online, no online heartbeat
\* ever seen and an offline heartbeat seen
C7_Witness ==
  /\ last = [evt |-> "TICK", did |-> "NONE"]
  /\ desired = "ONLINE"
  /\ last_online_hb = 0
  /\ last_offline_hb > 0
  /\ state = "ONLINE"

\* C8 as stated: after a HeartbeatOffline from the initial state has made
\* LinkState Offline (its Offline action done), the PowerOn that follows
\* invokes the Online action at once, whatever the time between the two.
C8_Original ==
  [][\A h \in Handlers :
       ( /\ Handles(h, "POWER_ON")
         /\ last.evt = "HB_OFFLINE"
         /\ state = "OFFLINE" /\ desired = "OFFLINE"
         /\ binary /\ result = "OK" /\ dispatches = 1 ) =>
         /\ dispatches' = dispatches + 1
         /\ Invokes(h)]_vars

\* C9 as stated: with nothing pending (no report waiting, no command
\* running, the watcher having had its turn), LinkState Online or Offline
\* and a command that works, the latest successful external action set the
\* device of the current LinkState.
Quiescent == \A t \in Threads : pc[t] = "idle"

C9_Original ==
  ( /\ Quiescent
    /\ last.evt = "TICK"
    /\ state \in {"ONLINE", "OFFLINE"}
    /\ binary /\ result = "OK" ) =>
    target = DeviceOf(state)

\* C10: when the external command fails, the failure is caught: LinkState,
\* DesiredState and last_apply keep their values and the lock is released;
\* and the next event that changes LinkState invokes the external command
\* again, however soon it comes.
C10_CommandFailure ==
  [][\A t \in Threads :
       /\ (pc[t] \in {"run1", "run2"} /\ pc'[t] = "idle" /\ result' = "FAILED") =>
            /\ UNCHANGED <<state, desired, last_apply, target>>
            /\ lock' = NoThread
       /\ ( /\ t \in Handlers
            /\ HandlerStep(t)
            /\ result = "FAILED"
            /\ Implied(hevt[t]) \notin {"NONE", state} ) =>
            /\ state' = Implied(hevt[t])
            /\ dispatches' = dispatches + 1
            /\ Invokes(t)
            /\ call'[t].name = DeviceOf(state')]_vars

\* the command failed and the next change of LinkState, at the same clock
\* reading, invoked it again
C10_Witness ==
  /\ result = "FAILED"
  /\ dispatches = 2
  /\ last.did = "INVOKED"
  /\ clock = last_dispatch
  /\ last_apply = 0
  /\ \E h \in Handlers : pc[h] = "run1" /\ call[h].name = DeviceOf(state)

\* C11: a handler that runs while the binary is missing and whose event
\* asks for a LinkState other than the present one (inside the debounce
\* window of an earlier action or not) reports the missing binary once (the
\* [ERR] line of line 32, the only thing set_default_playback does), launches
\* no external command and leaves last_apply alone, and LinkState and
\* DesiredState follow the event as with the binary present; an event that
\* asks for no change makes no report; no command is launched by any thread
\* while the binary is missing.
C11_MissingBinary ==
  [][~binary =>
       /\ \A h \in Handlers :
            (HandlerStep(h) /\ Implied(hevt[h]) \notin {"NONE", state}) =>
              /\ last' = [evt |-> hevt[h], did |-> "NOBINARY"]
              /\ state' = Implied(hevt[h])
              /\ desired' = Implied(hevt[h])
              /\ pc'[h] = "idle" /\ lock' = NoThread
              /\ UNCHANGED <<last_apply, dispatches, last_dispatch, target, result>>
       /\ \A h \in Handlers :
            (HandlerStep(h) /\ Implied(hevt[h]) \in {"NONE", state}) =>
              /\ last'.did = "NONE"
              /\ state' = state
              /\ desired' = IF Implied(hevt[h]) = "NONE" THEN desired ELSE state
              /\ UNCHANGED <<last_apply, dispatches, last_dispatch, target, result>>
       /\ \A t \in Threads : ~Invokes(t)
       /\ UNCHANGED dispatches]_vars

\* the binary went missing after a successful Offline action, and a
\* transition to Online inside the debounce window reported it
C11_Witness ==
  /\ ~binary
  /\ last.did = "NOBINARY"
  /\ state = "ONLINE" /\ desired = "ONLINE"
  /\ target = SPEAKERS_DEVICE_NAME /\ result = "OK"
  /\ last_apply > 0
  /\ (clock - last_apply) < DEBOUNCE_APPLY

\* C12: the globals are read and written only inside critical sections of
\* the one lock: at most one thread is inside one at a time (a thread inside
\* a running command holds the lock, and nobody else does), the globals
\* change only in a step of the thread that takes or holds the lock, and
\* the step that decides to dispatch is the step that assigns LinkState.
InCommand(t) == pc[t] \in {"run1", "run2"}

C12_MutualExclusion ==
  /\ [](/\ lock \in Threads \cup {NoThread}
        /\ \A t \in Threads : InCommand(t) <=> lock = t)
  /\ [][/\ globals' # globals =>
             \/ /\ lock = NoThread
                /\ (WatcherStep \/ \E h \in Handlers : HandlerStep(h))
             \/ \E t \in Threads : lock = t /\ InCommand(t) /\ pc'[t] = "idle"
        /\ \A h \in Handlers : HandlerStep(h) => lock = NoThread
        /\ \A t \in Threads :
             Invokes(t) =>
               /\ lock = NoThread /\ lock' = t
               /\ state' # state
               /\ call'[t].name = DeviceOf(state')]_vars

\* one handler is inside the external command, holding the lock, while the
\* other has a report and waits for the lock
C12_Witness ==
  /\ pc["h1"] = "run2" /\ lock = "h1"
  /\ pc["h2"] = "lock" /\ hevt["h2"] = "POWER_OFF"
  /\ state = "ONLINE"
  /\ hnow["h2"] > call["h1"].now

\* C13 as stated: no operation waits on the external command. While a
\* command is running (it may never return), a handler that has a report
\* can run its with-block, and so can the watcher.
C13_Original ==
  (\E t \in Threads : InCommand(t)) =>
    /\ \A h \in Handlers : pc[h] = "lock" => ENABLED on_data(h)
    /\ pc[Watcher] = "idle" => ENABLED watcher

\* C14 as stated: any invocation of the external command comes at least
\* DEBOUNCE_APPLY after the invocation before it, whatever that one's
\* outcome.
C14_Original ==
  [][\A t \in Threads :
       (Invokes(t) /\ dispatches > 0) =>
         (clock - last_dispatch) >= DEBOUNCE_APPLY]_vars

\* C15: when main has passed its test of devices: if no device was opened
\* (none found, or every open failed) the process has exited with status 1
\* and the watcher thread was not started; if some device was opened the
\* process has not exited at startup, the watcher thread is started and the
\* opened devices are exactly those whose open succeeded. The watcher is
\* never started before the test.
C15_Startup ==
  /\ mainpc = "open" => (~started /\ exit_status = NoStatus)
  /\ (mainpc # "open" /\ \A k \in 1..Len(devs) : ~devs[k]) =>
       /\ mainpc = "exited"
       /\ exit_status = 1
       /\ ~started
  /\ (mainpc # "open" /\ \E k \in 1..Len(devs) : devs[k]) =>
       /\ mainpc \in {"listening", "closed"}
       /\ exit_status # 1
       /\ mainpc = "listening" => exit_status = NoStatus
       /\ started
       /\ {devices[k] : k \in 1..Len(devices)} = {k \in 1..Len(devs) : devs[k]}

\* devices were found, every open failed, and the process has exited
C15_Witness ==
  /\ mainpc = "exited"
  /\ Len(devs) >= 2
  /\ exit_status = 1
  /\ ~started

\* C16 as stated: once a PowerOn (PowerOff) has forced LinkState Online
\* (Offline), a heartbeat received after it and implying the opposite state
\* changes neither LinkState nor the number of dispatches.
C16_Original ==
  [][\A h \in Handlers :
       /\ (Handles(h, "HB_OFFLINE") /\ last.evt = "POWER_ON" /\ state = "ONLINE"
             /\ hnow[h] > last_rx) =>
            (state' = state /\ dispatches' = dispatches)
       /\ (Handles(h, "HB_ONLINE") /\ last.evt = "POWER_OFF" /\ state = "OFFLINE"
             /\ hnow[h] > last_rx) =>
            (state' = state /\ dispatches' = dispatches)]_vars

\* C16 amended: power events have no priority. A heartbeat implying the
\* opposite of LinkState, after a power event forced it or otherwise, sets
\* LinkState and DesiredState to the heartbeat's state and calls
\* set_default_playback, which invokes the external command when the binary
\* is there and DEBOUNCE_APPLY has passed since last_apply.
C16_HeartbeatOverrides ==
  [][\A h \in Handlers :
       \A evt \in {"HB_ONLINE", "HB_OFFLINE"} :
         (Handles(h, evt) /\ state \in {"ONLINE", "OFFLINE"}
            /\ state # Implied(evt)) =>
           /\ state' = Implied(evt)
           /\ desired' = Implied(evt)
           /\ Called
           /\ Invokes(h) <=> (binary /\ Elapsed)
           /\ Invokes(h) => call'[h].name = DeviceOf(Implied(evt))]_vars

\* a PowerOn forced LinkState Online and the Online action succeeded (no
\* online heartbeat was ever handled); an offline heartbeat then forced
\* LinkState Offline and the Offline action is running
C16_Witness ==
  /\ last = [evt |-> "HB_OFFLINE", did |-> "INVOKED"]
  /\ state = "OFFLINE" /\ desired = "OFFLINE"
  /\ last_online_hb = 0
  /\ target = HEADSET_DEVICE_NAME /\ result = "OK"
  /\ \E h \in Handlers : pc[h] = "run1" /\ call[h].name = SPEAKERS_DEVICE_NAME

\* C17: whenever the lock is free DesiredState equals LinkState, under every
\* interleaving of handlers and watcher and every outcome of the command;
\* so a turn of the watcher never changes LinkState or DesiredState and
\* never calls set_default_playback.
C17_DesiredIsState ==
  /\ [](lock = NoThread => desired = state)
  /\ [][WatcherStep =>
          /\ state' = state /\ desired' = desired
          /\ ~Called
          /\ \A t \in Threads : ~Invokes(t)
          /\ UNCHANGED <<lock, dispatches, last_apply>>]_vars

\* the watcher took a turn with DesiredState Online and an online heartbeat
\* seen (the inner test of line 117 would pass), after a failed command
C17_Witness ==
  /\ last = [evt |-> "TICK", did |-> "NONE"]
  /\ lock = NoThread
  /\ state = "ONLINE" /\ desired = "ONLINE"
  /\ last_online_hb > 0
  /\ result = "FAILED"

\* C18 as stated: last_rx, last_online_hb and last_offline_hb never
\* decrease, under any interleaving of handler invocations.
C18_Original ==
  [][/\ last_rx' >= last_rx
     /\ last_online_hb' >= last_online_hb
     /\ last_offline_hb' >= last_offline_hb]_vars

\* C19: a call of set_default_playback that passes the binary and debounce
\* tests starts the role-1 call; the role-2 call is started only when the
\* role-1 call has returned zero, for the same device name; when a call
\* fails or cannot be launched nothing more is called; and last_apply changes only when the
\* role-2 call has returned zero, to the time read before the two calls.
C19_TwoCalls ==
  [][/\ \A t \in Threads :
          /\ (Called /\ pc[t] \in {"idle", "lock"} /\ pc'[t] # pc[t]
                /\ binary /\ Elapsed) =>
               (pc'[t] = "run1" /\ call'[t].now = clock)
          /\ pc'[t] = "run1" => (pc[t] = "run1" \/ (Called /\ binary /\ Elapsed))
          /\ (pc'[t] = "run2" /\ pc[t] # "run2") =>
               /\ pc[t] = "run1"
               /\ call'[t] = call[t]
               /\ UNCHANGED <<last_apply, target, result>>
          /\ (pc[t] = "run1" /\ pc'[t] \in {"idle", "dead"}) =>
               /\ result' \in {"FAILED", "RAISED"}
               /\ UNCHANGED <<last_apply, target>>
          /\ (pc[t] = "run2" /\ pc'[t] = "idle") =>
               IF result' = "OK"
                 THEN last_apply' = call[t].now /\ target' = call[t].name
                 ELSE result' = "FAILED" /\ UNCHANGED <<last_apply, target>>
     /\ last_apply' # last_apply =>
          \E t \in Threads : pc[t] = "run2" /\ pc'[t] = "idle" /\ result' = "OK"]_vars

\* both calls for the headset have returned zero; the clock advanced while
\* they ran, and last_apply is the time read before them
C19_Witness ==
  /\ result = "OK"
  /\ target = HEADSET_DEVICE_NAME
  /\ lock = NoThread
  /\ last_apply = last_dispatch
  /\ last_apply < clock
  /\ dispatches = 1

\* C20: LinkState and DesiredState are Unknown until the first PowerOn,
\* PowerOff, HeartbeatOnline or HeartbeatOffline is handled, always lie in
\* {Unknown, Online, Offline}, and never return to Unknown once they have
\* left it; set_default_playback is never called for a LinkState that is
\* Unknown, so no external action happens while LinkState is Unknown.
C20_UnknownOnlyAtStart ==
  /\ [](/\ state \in States /\ desired \in States
        /\ reports = 0 => (state = "UNKNOWN" /\ desired = "UNKNOWN")
        /\ state = "UNKNOWN" =>
             /\ desired = "UNKNOWN"
             /\ dispatches = 0 /\ target = "NONE" /\ result = "NONE"
             /\ \A t \in Threads : pc[t] \notin {"run1", "run2"})
  /\ [][/\ state # "UNKNOWN" => state' # "UNKNOWN"
        /\ desired # "UNKNOWN" => desired' # "UNKNOWN"
        /\ Called => state' # "UNKNOWN"
        /\ state' # state =>
             \E h \in Handlers :
               HandlerStep(h)
                 /\ hevt[h] \in {"POWER_ON", "POWER_OFF", "HB_ONLINE", "HB_OFFLINE"}]_vars

\* all the reports of the run were unrecognised: LinkState is still Unknown
\* after them and after a turn of the watcher
C20_Witness ==
  /\ state = "UNKNOWN" /\ desired = "UNKNOWN"
  /\ reports = MaxReports
  /\ last_rx > StartTime
  /\ last.evt = "TICK"
  /\ \A t \in Threads : pc[t] = "idle"

====
